---- MODULE Spec2Model ----
(***************************************************************************)
(* Model of the nebu MCP extraction / pipeline / fetch tools               *)
(* (src/mcp/nebu_mcp).  One tool call is in flight at a time; the state is *)
(* the call's arguments and locals, the composed shell command, the child  *)
(* processes it started, what they produced, and the response returned.    *)
(*                                                                         *)
(* Text is a sequence of one-element strings ("characters"); a directory   *)
(* prefix or a fixed word of a command line is a single element.           *)
(***************************************************************************)
EXTENDS Integers, Sequences, FiniteSets, TLC

VARIABLES
    pc,        \* "idle": no call yet; "running": awaiting the child; "done"
    fs,        \* the file system the locators and the shell look at
    call,      \* the tool called and its arguments
    locals,    \* the handler's locals that live across the await
    cmd,       \* the composed shell command ("" before composition)
    alive,     \* processes of this call still running: 0 the shell, i stage i
    spawned,   \* number of processes this call has created
    result,    \* what communicate() delivered: stdout, stderr, returncode
    response   \* the object returned to the caller

vars == <<pc, fs, call, locals, cmd, alive, spawned, result, response>>

(***************************************************************************)
(* config.py                                                               *)
(***************************************************************************)
DEFAULT_LIMIT == 100
MAX_LIMIT == 1000
MAX_LEDGER_RANGE == 100
EXTRACTION_TIMEOUT == 120

FORMAT_FULL == "full"
FORMAT_COMPACT == "compact"
FORMAT_SUMMARY == "summary"

(***************************************************************************)
(* Bounds of the model                                                     *)
(***************************************************************************)
MaxStart == 1
MaxLines == 2

(***************************************************************************)
(* Python str operations used by the tools                                 *)
(***************************************************************************)
IsSpace(c) == c \in {" ", "\n"}

RECURSIVE LStrip(_)
LStrip(s) == IF s # <<>> /\ IsSpace(Head(s)) THEN LStrip(Tail(s)) ELSE s

RECURSIVE RStrip(_)
RStrip(s) ==
    IF s # <<>> /\ IsSpace(s[Len(s)]) THEN RStrip(SubSeq(s, 1, Len(s) - 1)) ELSE s

\* str.strip()
Strip(s) == RStrip(LStrip(s))

\* str.split(sep): always at least one part, empty parts are kept
RECURSIVE SplitOn(_, _, _)
SplitOn(s, sep, cur) ==
    IF s = <<>> THEN <<cur>>
    ELSE IF Head(s) = sep THEN <<cur>> \o SplitOn(Tail(s), sep, <<>>)
    ELSE SplitOn(Tail(s), sep, Append(cur, Head(s)))

Split(s, sep) == SplitOn(s, sep, <<>>)

\* str.split() without a separator: runs of whitespace separate, no empty words
RECURSIVE WordsOf(_, _)
WordsOf(s, cur) ==
    IF s = <<>> THEN (IF cur = <<>> THEN <<>> ELSE <<cur>>)
    ELSE IF IsSpace(Head(s))
         THEN (IF cur = <<>> THEN <<>> ELSE <<cur>>) \o WordsOf(Tail(s), <<>>)
         ELSE WordsOf(Tail(s), Append(cur, Head(s)))

Words(s) == WordsOf(s, <<>>)

StartsWith(s, p) == Len(p) <= Len(s) /\ SubSeq(s, 1, Len(p)) = p

\* str.replace(old, new, 1): the first occurrence only
RECURSIVE Replace1(_, _, _)
Replace1(s, old, new) ==
    IF s = <<>> THEN <<>>
    ELSE IF StartsWith(s, old) THEN new \o SubSeq(s, Len(old) + 1, Len(s))
    ELSE <<Head(s)>> \o Replace1(Tail(s), old, new)

\* str.replace(old, new): every occurrence
RECURSIVE ReplaceAll(_, _, _)
ReplaceAll(s, old, new) ==
    IF s = <<>> THEN <<>>
    ELSE IF StartsWith(s, old)
         THEN new \o ReplaceAll(SubSeq(s, Len(old) + 1, Len(s)), old, new)
    ELSE <<Head(s)>> \o ReplaceAll(Tail(s), old, new)

\* sep.join(parts)
RECURSIVE Join(_, _)
Join(parts, sep) ==
    IF parts = <<>> THEN <<>>
    ELSE IF Len(parts) = 1 THEN parts[1]
    ELSE parts[1] \o sep \o Join(Tail(parts), sep)

\* f"{n}" for an integer
Str(n) == <<ToString(n)>>

Min(a, b) == IF a <= b THEN a ELSE b

(***************************************************************************)
(* The file system the locators probe.  A name is text without a           *)
(* directory; a path is a directory prefix followed by a name.             *)
(*   path  : names that a search-path lookup (shutil.which) finds          *)
(*   files : <<directory, name, mode>>, mode "x" an executable regular     *)
(*           file, "f" a regular file without execute permission           *)
(*   dirs  : existing directories for output files                         *)
(***************************************************************************)
GoBin == "~/go/bin/"
LocalBin == "~/.local/bin/"
UsrLocalBin == "/usr/local/bin/"

NEBU == <<"nebu">>

FsInstalled ==
    [path  |-> {<<"a">>, NEBU},
     files |-> {<<GoBin, <<"g">>, "x">>, <<UsrLocalBin, <<"g">>, "x">>,
                <<LocalBin, <<"n">>, "f">>, <<UsrLocalBin, <<"n">>, "x">>,
                <<GoBin, <<"k">>, "f">>},
     dirs  |-> {<<"/tmp">>}]

FsBare ==
    [path  |-> {},
     files |-> {<<LocalBin, NEBU, "x">>, <<GoBin, <<"a">>, "f">>},
     dirs  |-> {<<"/tmp">>}]

FsConfigs == {FsInstalled, FsBare}

\* shutil.which(name)
Which(f, name) == name \in f.path

\* the execute-permission test left out
IsExecutableFile_AnyFile(f, dir, name) ==
    <<dir, name, "x">> \in f.files \/ <<dir, name, "f">> \in f.files

\* os.path.isfile(path) and os.access(path, os.X_OK)
IsExecutableFile(f, dir, name) == <<dir, name, "x">> \in f.files

\* the ordered fallback directories (common_paths)
common_paths == <<GoBin, LocalBin, UsrLocalBin>>

None == <<>>

\* find_processor: the name itself when on the search path, else the first
\* fallback path that is an executable file, else None
find_processor(f, name) ==
    IF Which(f, name) THEN name
    ELSE LET hits == {i \in 1..Len(common_paths) :
                         IsExecutableFile(f, common_paths[i], name)}
         IN  IF hits = {} THEN None
             ELSE LET i == CHOOSE j \in hits : \A k \in hits : j <= k
                  IN  <<common_paths[i]>> \o name

\* find_nebu: the same search for the fixed name "nebu"
find_nebu(f) ==
    IF Which(f, NEBU) THEN NEBU
    ELSE LET hits == {i \in 1..Len(common_paths) :
                         IsExecutableFile(f, common_paths[i], NEBU)}
         IN  IF hits = {} THEN None
             ELSE LET i == CHOOSE j \in hits : \A k \in hits : j <= k
                  IN  <<common_paths[i]>> \o NEBU

(***************************************************************************)
(* Range validation and limit enforcement (the same statements open        *)
(* extract_events, run_pipeline and fetch_ledgers)                         *)
(***************************************************************************)
RangeInverted(ledger_range) == ledger_range < 0

\* the bound off by one
RangeTooLarge_OffByOne(ledger_range) == ledger_range > MAX_LEDGER_RANGE + 1

RangeTooLarge(ledger_range) == ledger_range > MAX_LEDGER_RANGE

\* the suggestion forgets where the range starts
SuggestedEnd_FromZero(start_ledger) == MAX_LEDGER_RANGE

SuggestedEnd(start_ledger) == start_ledger + MAX_LEDGER_RANGE

ErrInverted == [error |-> <<"end_ledger must be >= start_ledger">>]

\* hint is the tool's own wording of the suggestion, sep what it puts
\* between the two ledger numbers
ErrTooLarge(ledger_range, hint, sep, start_ledger) ==
    [error      |-> <<"Ledger range too large (">> \o Str(ledger_range)
                      \o <<"). Maximum is ">> \o Str(MAX_LEDGER_RANGE)
                      \o <<" ledgers per call.">>,
     suggestion |-> <<hint>> \o Str(start_ledger) \o <<sep>>
                      \o Str(SuggestedEnd(start_ledger))]

\* the caller's limit taken as it comes
EnforceLimit_None(limit) == limit

\* limit = min(limit, MAX_LIMIT)
EnforceLimit(limit) == Min(limit, MAX_LIMIT)

(***************************************************************************)
(* JSON values on the processors' output.  A value is tagged with its JSON *)
(* type: an object carries a record of fields, a number its value.  A line *)
(* of output is text: empty, one complete JSON document, or text that is   *)
(* not JSON (a line cut short, a log message); or it is bytes that are not *)
(* valid UTF-8 and so are no text at all.                                  *)
(***************************************************************************)
JObj(fields) == [t |-> "obj", v |-> fields]
JNum(n) == [t |-> "num", v |-> [n |-> n]]

IsObj(j) == j.t = "obj"

EvTransfer ==
    JObj([transfer |-> [from |-> "GA", to |-> "GB", amount |-> "25",
                        assetCode |-> "USDC"],
          meta |-> [ledgerSequence |-> 7,
                    txHash |-> <<"0","1","2","3","4","5","6","7","8","9",
                                 "a","b","c","d">>]])

EvBurn == JObj([burn |-> [from |-> "GA", amount |-> "3"]])

EvMintFee ==
    JObj([mint |-> [to |-> "GB", amount |-> "9", assetCode |-> "XLM"],
          fee  |-> [from |-> "GB", amount |-> "1"]])

EvContract ==
    JObj([contract |-> [id |-> "CC"], meta |-> [ledgerSequence |-> 8]])

EvNumber == JNum(100)

JsonValues == {EvTransfer, EvBurn, EvMintFee, EvContract, EvNumber}

EmptyLine == <<>>
JunkLine == <<[junk |-> "{\"transfer\": {\"fro"]>>
DocLine(j) == <<[doc |-> j]>>
BadBytesLine == <<[bytes |-> "\\xff"]>>

\* the lines of a short output; burn events come with the long output
LineAlphabet ==
    {EmptyLine, JunkLine} \cup {DocLine(j) : j \in JsonValues \ {EvBurn}}

\* output of up to MaxLines lines, and one long output of burn events that
\* exceeds every limit the tools accept
ShortOutputs == UNION {[1..n -> LineAlphabet] : n \in 0..MaxLines}
LongOutput == [i \in 1..(MAX_LIMIT + 1) |-> DocLine(EvBurn)]

\* output with bytes in it that are not UTF-8, alone and after an event
BinaryOutputs == {<<BadBytesLine>>, <<DocLine(EvTransfer), BadBytesLine>>}

Outputs == ShortOutputs \cup BinaryOutputs \cup {LongOutput}

\* stdout.decode() succeeds: strict UTF-8, every byte sequence must be valid
Decodes(stdout) ==
    \A i \in 1..Len(stdout) : ~(Len(stdout[i]) = 1 /\ "bytes" \in DOMAIN stdout[i][1])

UnicodeDecodeError == [exception |-> "UnicodeDecodeError"]

\* json.loads(line) succeeds
Parses(line) == Len(line) = 1 /\ "doc" \in DOMAIN line[1]

\* json.loads(line)
json_loads(line) == line[1].doc

\* the "Parse events" loop: stdout_str.strip().split("\n"), skipping empty
\* lines and lines json.loads rejects
Loaded(kept) == [i \in 1..Len(kept) |-> json_loads(kept[i])]

ParseEvents(stdout_lines) ==
    Loaded(SelectSeq(stdout_lines, LAMBDA line : Len(line) > 0 /\ Parses(line)))

(***************************************************************************)
(* formatters/compact.py and formatters/summary.py                         *)
(***************************************************************************)
\* the scan stops one key short
KIND_KEYS_NoFee == <<"transfer", "mint", "burn", "clawback">>

KIND_KEYS == <<"transfer", "mint", "burn", "clawback", "fee">>

HasKey(d, k) == k \in DOMAIN d

Get(d, k, default) == IF HasKey(d, k) THEN d[k] ELSE default

EmptyDict == [k \in {} |-> 0]

Put(d, k, val) == [x \in DOMAIN d \cup {k} |-> IF x = k THEN val ELSE d[x]]

PutIf(cond, d, k, val) == IF cond THEN Put(d, k, val) ELSE d

\* the first kind key present in the event, scanning KIND_KEYS in order;
\* "" when none is (the loop ends without a match)
KindOf(fields) ==
    LET present == {i \in 1..Len(KIND_KEYS) : HasKey(fields, KIND_KEYS[i])}
    IN  IF present = {} THEN ""
        ELSE KIND_KEYS[CHOOSE i \in present : \A j \in present : i <= j]

Raises(r) == "exception" \in DOMAIN r

TypeError == [exception |-> "TypeError"]

\* compact_event(event); "t in event" on a value that is not a container
\* raises TypeError
compact_event(event) ==
    IF ~IsObj(event) THEN TypeError
    ELSE
    LET e == event.v
        event_type == KindOf(e)
        meta == Get(e, "meta", EmptyDict)
        evt_data == IF event_type # "" THEN e[event_type] ELSE EmptyDict
        r1 == PutIf(event_type # "", EmptyDict, "type", event_type)
        r2 == PutIf(HasKey(meta, "ledgerSequence"), r1, "ledger",
                    Get(meta, "ledgerSequence", 0))
        r3 == PutIf(HasKey(meta, "txHash"), r2, "tx",
                    LET h == Get(meta, "txHash", <<>>)
                    IN  SubSeq(h, 1, Min(12, Len(h))) \o <<"...">>)
        r4 == PutIf(HasKey(evt_data, "from"), r3, "from", Get(evt_data, "from", ""))
        r5 == PutIf(HasKey(evt_data, "to"), r4, "to", Get(evt_data, "to", ""))
        r6 == PutIf(HasKey(evt_data, "amount"), r5, "amount", Get(evt_data, "amount", ""))
        r7 == PutIf(HasKey(evt_data, "assetCode"), r6, "asset",
                    Get(evt_data, "assetCode", ""))
    IN  r7

\* evt_data.get("assetCode", "unknown") for an event matched under kind t
AssetOf(event, t) == Get(event.v[t], "assetCode", "unknown")

\* a strict comparison
Truncated_Strict(events, limit) == Len(events) > limit

\* truncated = len(events) >= limit, in the handlers
Truncated(events, limit) == Len(events) >= limit

\* the loop without its break: an event is counted under every kind key it has
Summary_NoBreak(events, kind_of, start_ledger, end_ledger, limit) ==
    LET kinds == {KIND_KEYS[k] : k \in 1..Len(KIND_KEYS)}
        matched == {i \in 1..Len(events) : kind_of[i] # ""}
        types == {t \in kinds : \E i \in matched : HasKey(events[i].v, t)}
        assets == {AssetOf(events[i], kind_of[i]) : i \in matched}
    IN  [total_events |-> Len(events),
         by_type      |-> [t \in types |->
                             Cardinality({i \in matched : HasKey(events[i].v, t)})],
         by_asset     |-> [a \in assets |->
                             Cardinality({i \in matched :
                                             AssetOf(events[i], kind_of[i]) = a})],
         ledger_range |-> <<start_ledger, end_ledger>>,
         truncated    |-> Len(events) >= limit]

\* the events the inner loop finds a kind key in
Matched(kind_of) == {i \in 1..Len(kind_of) : kind_of[i] # ""}

\* the asset each matched event is counted under
AssetsOf(events, kind_of) ==
    [i \in 1..Len(events) |->
        IF kind_of[i] # "" THEN AssetOf(events[i], kind_of[i]) ELSE ""]

\* a Counter after counter[key[i]] += 1 for every matched event i
Counter(matched, key) ==
    [k \in {key[i] : i \in matched} |-> Cardinality({i \in matched : key[i] = k})]

\* the counters after the loop of summarize_events: kind_of[i] is the kind
\* key the inner loop stops at for event i ("" when it finds none, and the
\* event is then counted nowhere)
Summary(events, kind_of, start_ledger, end_ledger, limit) ==
    [total_events |-> Len(events),
     by_type      |-> Counter(Matched(kind_of), kind_of),
     by_asset     |-> Counter(Matched(kind_of), AssetsOf(events, kind_of)),
     ledger_range |-> <<start_ledger, end_ledger>>,
     truncated    |-> Len(events) >= limit]

\* summarize_events(events, start_ledger, end_ledger, limit); "t in event"
\* on a value that is not a container raises TypeError
summarize_events(events, start_ledger, end_ledger, limit) ==
    IF \E i \in 1..Len(events) : ~IsObj(events[i]) THEN TypeError
    ELSE Summary(events, [i \in 1..Len(events) |-> KindOf(events[i].v)],
                 start_ledger, end_ledger, limit)

(***************************************************************************)
(* Command composition                                                     *)
(***************************************************************************)
PIPE == <<" ", "|", " ">>

\* the quiet flag left out
LedgerArgs_NoQuiet(start_ledger, end_ledger) ==
    <<" ", "--start-ledger", " ">> \o Str(start_ledger)
        \o <<" ", "--end-ledger", " ">> \o Str(end_ledger)

LedgerArgs(start_ledger, end_ledger) ==
    <<" ", "--start-ledger", " ">> \o Str(start_ledger)
        \o <<" ", "--end-ledger", " ">> \o Str(end_ledger) \o <<" ", "-q">>

\* f" | head -{limit}"
HeadStage(limit) == PIPE \o <<"head", " ", "-">> \o Str(limit)

\* filter.replace("'", "'\\''")
EscapeFilter(filter) == ReplaceAll(filter, <<"'">>, <<"'", "\\", "'", "'">>)

\* the command extract_events builds; filter is <<>> for None, <<text>> else
ExtractCommand(processor_path, start_ledger, end_ledger, filter, limit) ==
    processor_path \o LedgerArgs(start_ledger, end_ledger)
        \o (IF filter # <<>> /\ filter[1] # <<>>
            THEN PIPE \o <<"jq", " ", "-c", " ", "'">> \o EscapeFilter(filter[1]) \o <<"'">>
            ELSE <<>>)
        \o HeadStage(limit)

\* the later stages of a pipeline: stripped, empty ones dropped, the leading
\* name replaced by its path when the locator finds one and kept otherwise
ResolvePart(f, part) ==
    LET proc_name == Words(part)[1]
        proc_path == find_processor(f, proc_name)
    IN  IF proc_path # None THEN Replace1(part, proc_name, proc_path) ELSE part

ResolvedRest(f, parts) ==
    LET stripped == [i \in 1..(Len(parts) - 1) |-> Strip(parts[i + 1])]
        kept == SelectSeq(stripped, LAMBDA part : part # <<>>)
    IN  [i \in 1..Len(kept) |-> ResolvePart(f, kept[i])]

\* the command run_pipeline builds once the first processor is resolved
PipelineCommand(f, parts, first_processor_cmd, start_ledger, end_ledger, limit) ==
    LET rest_of_pipeline ==
            Join([i \in 1..(Len(parts) - 1) |-> Strip(parts[i + 1])], PIPE)
        resolved_rest == ResolvedRest(f, parts)
    IN  first_processor_cmd \o LedgerArgs(start_ledger, end_ledger)
            \o (IF rest_of_pipeline # <<>> /\ resolved_rest # <<>>
                THEN PIPE \o Join(resolved_rest, PIPE) ELSE <<>>)
            \o HeadStage(limit)

\* os.path.dirname(output_file)
RECURSIVE LastSlash(_, _)
LastSlash(s, i) == IF i = 0 THEN 0 ELSE IF s[i] = "/" THEN i ELSE LastSlash(s, i - 1)

dirname(path) ==
    LET i == LastSlash(path, Len(path))
    IN  IF i <= 1 THEN SubSeq(path, 1, i) ELSE SubSeq(path, 1, i - 1)

\* f"{nebu_path} fetch -q {start_ledger} {end_ledger} > {output_file}"
FetchCommand(nebu_path, start_ledger, end_ledger, output_file) ==
    nebu_path \o <<" ", "fetch", " ", "-q", " ">> \o Str(start_ledger) \o <<" ">>
        \o Str(end_ledger) \o <<" ", ">", " ">> \o output_file

(***************************************************************************)
(* The shell (/bin/sh -c cmd) and the processes of the chain               *)
(***************************************************************************)
\* the stages of a command line: split at each "|" that is neither inside
\* single quotes nor escaped by a backslash
RECURSIVE ShellSplit(_, _, _)
ShellSplit(s, cur, inq) ==
    IF s = <<>> THEN <<cur>>
    ELSE IF inq
         THEN ShellSplit(Tail(s), Append(cur, Head(s)), Head(s) # "'")
    ELSE IF Head(s) = "\\" /\ Len(s) >= 2
         THEN ShellSplit(Tail(Tail(s)), cur \o SubSeq(s, 1, 2), FALSE)
    ELSE IF Head(s) = "'"
         THEN ShellSplit(Tail(s), Append(cur, Head(s)), TRUE)
    ELSE IF Head(s) = "|"
         THEN <<cur>> \o ShellSplit(Tail(s), <<>>, FALSE)
    ELSE ShellSplit(Tail(s), Append(cur, Head(s)), FALSE)

ShellStages(c) == ShellSplit(c, <<>>, FALSE)

\* the command word of a stage
StageCommand(stage) == LET w == Words(stage) IN IF w = <<>> THEN <<>> ELSE w[1]

IsHead(stage) == StageCommand(stage) = <<"head">>

\* command lookup by the shell: a bare name on the search path (jq and head
\* are installed), or a path to an executable file
ShellFinds(f, word) ==
    \/ word \in {<<"jq">>, <<"head">>}
    \/ word \in f.path
    \/ Len(word) >= 2 /\ <<word[1], Tail(word), "x">> \in f.files

\* how a stage that ran can end: exit code and what it wrote to stderr
StageOutcomes ==
    {[code |-> 0, err |-> <<>>],
     [code |-> 1, err |-> <<"boom", "\n">>],
     [code |-> 1, err |-> <<"Error:", " ", "ledger", " ", "Not", " ", "Found", "\n">>]}

\* a stage whose command the shell cannot find
CommandNotFound(word) ==
    [code |-> 127, err |-> <<"sh:", " ", "1:", " ">> \o word \o <<":", " ", "not", " ", "found", "\n">>]

\* the limits a caller passes in the model: below, at and above both ends
\* of the accepted interval
Limits == {-1, 0, 1, 2, MAX_LIMIT, MAX_LIMIT + 1}

\* the integers a head argument can spell
Numerals == Limits

\* head -N: N lines when N is a count; "head --1" is an unrecognized option
HeadCount(stage) ==
    LET arg == Words(stage)[2]
    IN  CHOOSE n \in Numerals : arg = <<"-">> \o Str(n)

HeadFails(stage) == HeadCount(stage) < 0

HeadFailure == [code |-> 1, err |-> <<"head:", " ", "unrecognized", " ", "option", "\n">>]

Take(lines, n) == SubSeq(lines, 1, Min(n, Len(lines)))

\* the stages that run a program whose behaviour is its own
FreeStages(f, stages) ==
    {i \in 1..Len(stages) :
        ~IsHead(stages[i]) /\ ShellFinds(f, StageCommand(stages[i]))}

\* exit status and stderr of every stage, given the free stages' outcomes
StageResults(f, stages, o) ==
    [i \in 1..Len(stages) |->
        IF i \in DOMAIN o THEN o[i]
        ELSE IF ~IsHead(stages[i]) THEN CommandNotFound(StageCommand(stages[i]))
        ELSE IF HeadFails(stages[i]) THEN HeadFailure
        ELSE [code |-> 0, err |-> <<>>]]

RECURSIVE Concat(_)
Concat(ss) == IF ss = <<>> THEN <<>> ELSE Head(ss) \o Concat(Tail(ss))

\* what head -count can pass on
HeadOf(count) == {Take(emitted, count) : emitted \in Outputs}

\* what the chain can write to the captured stdout: head passes the first N
\* lines of what the stage before it wrote; a stage that was not found
\* writes nothing; an output redirected to a file is not captured
Captured(stages, o) ==
    LET n == Len(stages)
    IN  IF n >= 2 /\ IsHead(stages[n]) /\ ~HeadFails(stages[n]) /\ (n - 1) \in DOMAIN o
        THEN HeadOf(HeadCount(stages[n]))
        ELSE {<<>>}

\* what communicate() and proc.returncode deliver: stderr is every stage's,
\* the return code is the last stage's (the shell's pipeline status)
Communicate(res, stdout) ==
    [stdout     |-> stdout,
     stderr     |-> Concat([i \in 1..Len(res) |-> res[i].err]),
     returncode |-> res[Len(res)].code,
     stages     |-> res]

\* str.lower() on the words stderr can hold
Lower(w) ==
    CASE w = "Not" -> "not" [] w = "Found" -> "found" [] w = "Error:" -> "error:"
      [] OTHER -> w

LowerAll(s) == [i \in 1..Len(s) |-> Lower(s[i])]

\* sub in s
Contains(s, sub) ==
    \E i \in 0..(Len(s) - Len(sub)) : SubSeq(s, i + 1, i + Len(sub)) = sub

NOT_FOUND == <<"not", " ", "found">>
COMMAND_NOT_FOUND == <<"command", " ">> \o NOT_FOUND

\* "not found" in stderr_str.lower() or "command not found" in stderr_str.lower()
MentionsNotFound(stderr_str) ==
    \/ Contains(LowerAll(stderr_str), NOT_FOUND)
    \/ Contains(LowerAll(stderr_str), COMMAND_NOT_FOUND)

(***************************************************************************)
(* Inputs of the model                                                     *)
(***************************************************************************)
Starts == 0..MaxStart
Deltas == {-1, 0, MAX_LEDGER_RANGE, MAX_LEDGER_RANGE + 1}
Formats == {FORMAT_FULL, FORMAT_COMPACT, FORMAT_SUMMARY}

\* a on the search path; g an executable in ~/go/bin and /usr/local/bin;
\* n without execute permission in ~/.local/bin, executable in
\* /usr/local/bin; k without execute permission only; m nowhere
ProcessorNames == {<<"a">>, <<"g">>, <<"n">>, <<"k">>, <<"m">>}

\* filter: None, "", and a text with a quote and a pipe in it
Filters == {<<>>, << <<>> >>, << <<"'", "|">> >>}

Pipelines ==
    {<<"a">>,
     <<"g", " ", "|", " ", "a">>,
     <<"a", " ", "|", " ", "m", " ", "-", "x">>,
     <<"m", " ", "|", " ", "a">>,
     <<>>,
     <<" ", "|", " ", "a">>,
     <<"a", " ", "|", " ", "|", "n", " ">>,
     <<" ", "a", " ", "-", "x", "|", "g">>}

OutputFiles ==
    {<<"out.xdr">>, <<"/tmp", "/", "out.xdr">>, <<"/nodir", "/", "out.xdr">>}

FileSizes == {0, 512}

NoCall ==
    [tool |-> "none", processor |-> <<>>, pipeline |-> <<>>, start_ledger |-> 0,
     end_ledger |-> 0, filter |-> <<>>, limit |-> 0, format |-> FORMAT_FULL,
     output_file |-> <<>>]

NoLocals == [limit |-> 0, ledger_range |-> 0]

NoResult == [stdout |-> <<>>, stderr |-> <<>>, returncode |-> 0, stages |-> <<>>]

NoResponse == [pending |-> TRUE]

Init ==
    /\ pc = "idle"
    /\ fs \in FsConfigs
    /\ call = NoCall
    /\ locals = NoLocals
    /\ cmd = <<>>
    /\ alive = {}
    /\ spawned = 0
    /\ result = NoResult
    /\ response = NoResponse

\* return before any process exists
Return(r) ==
    /\ pc' = "done"
    /\ response' = r
    /\ UNCHANGED <<fs, locals, cmd, alive, spawned, result>>

\* asyncio.create_subprocess_shell(cmd, ...): the shell and the stages of
\* the chain it starts; the handler then awaits communicate()
Spawn(c, l) ==
    /\ pc' = "running"
    /\ cmd' = c
    /\ locals' = l
    /\ alive' = 0..Len(ShellStages(c))
    /\ spawned' = spawned + 1 + Len(ShellStages(c))
    /\ UNCHANGED <<fs, result, response>>

(***************************************************************************)
(* extract_events up to the await                                          *)
(***************************************************************************)
ErrProcessorNotFound(processor) ==
    [error      |-> <<"Processor '">> \o processor \o <<"' not found">>,
     suggestion |-> <<"Install with: nebu install ">> \o processor,
     searched   |-> <<"PATH", "~/go/bin", "~/.local/bin", "/usr/local/bin">>]

ExtractEvents(processor, start_ledger, end_ledger, filter, limit0, format) ==
    /\ pc = "idle"
    /\ call' = [NoCall EXCEPT !.tool = "extract_events", !.processor = processor,
                  !.start_ledger = start_ledger, !.end_ledger = end_ledger,
                  !.filter = filter, !.limit = limit0, !.format = format]
    /\ LET ledger_range == end_ledger - start_ledger
           processor_path == find_processor(fs, processor)
           limit == EnforceLimit(limit0)
       IN  IF RangeInverted(ledger_range) THEN Return(ErrInverted)
           ELSE IF RangeTooLarge(ledger_range)
           THEN Return(ErrTooLarge(ledger_range,
                    "Try a smaller range: --start-ledger ", " --end-ledger ",
                    start_ledger))
           ELSE IF processor_path = None THEN Return(ErrProcessorNotFound(processor))
           ELSE Spawn(ExtractCommand(processor_path, start_ledger, end_ledger,
                                     filter, limit),
                      [limit |-> limit, ledger_range |-> ledger_range])

(***************************************************************************)
(* run_pipeline up to the await                                            *)
(***************************************************************************)
ErrFirstNotFound(name) ==
    [error      |-> <<"First processor '">> \o name \o <<"' not found">>,
     suggestion |-> <<"Install with: nebu install ">> \o name]

IndexError == [exception |-> "IndexError"]

RunPipeline(pipeline, start_ledger, end_ledger, limit0, format) ==
    /\ pc = "idle"
    /\ call' = [NoCall EXCEPT !.tool = "run_pipeline", !.pipeline = pipeline,
                  !.start_ledger = start_ledger, !.end_ledger = end_ledger,
                  !.limit = limit0, !.format = format]
    /\ LET ledger_range == end_ledger - start_ledger
           limit == EnforceLimit(limit0)
           parts == Split(Strip(pipeline), "|")
           first_processor_cmd == Strip(parts[1])
           first_processor_name == Words(first_processor_cmd)[1]
           processor_path == find_processor(fs, first_processor_name)
       IN  IF RangeInverted(ledger_range) THEN Return(ErrInverted)
           ELSE IF RangeTooLarge(ledger_range)
           THEN Return(ErrTooLarge(ledger_range,
                    "Try a smaller range: start=", " end=", start_ledger))
           ELSE IF parts = <<>> THEN Return([error |-> <<"Empty pipeline">>])
           \* first_processor_cmd.split()[0] on a stage without a word
           ELSE IF Words(first_processor_cmd) = <<>> THEN Return(IndexError)
           ELSE IF processor_path = None
           THEN Return(ErrFirstNotFound(first_processor_name))
           ELSE Spawn(PipelineCommand(fs, parts,
                          Replace1(first_processor_cmd, first_processor_name,
                                   processor_path),
                          start_ledger, end_ledger, limit),
                      [limit |-> limit, ledger_range |-> ledger_range])

(***************************************************************************)
(* fetch_ledgers up to the await                                           *)
(***************************************************************************)
ErrNebuNotFound ==
    [error      |-> <<"nebu CLI not found">>,
     suggestion |-> <<"Install with: go install github.com/withObsrvr/nebu/cmd/nebu@latest">>]

FetchLedgers(start_ledger, end_ledger, output_file) ==
    /\ pc = "idle"
    /\ call' = [NoCall EXCEPT !.tool = "fetch_ledgers",
                  !.start_ledger = start_ledger, !.end_ledger = end_ledger,
                  !.output_file = output_file]
    /\ LET ledger_range == end_ledger - start_ledger
           nebu_path == find_nebu(fs)
           output_dir == dirname(output_file)
       IN  IF RangeInverted(ledger_range) THEN Return(ErrInverted)
           ELSE IF RangeTooLarge(ledger_range)
           THEN Return(ErrTooLarge(ledger_range,
                    "Try a smaller range, e.g., start=", " end=", start_ledger))
           ELSE IF nebu_path = None THEN Return(ErrNebuNotFound)
           ELSE IF output_dir # <<>> /\ output_dir \notin fs.dirs
           THEN Return([error |-> <<"Output directory does not exist: ">> \o output_dir])
           ELSE Spawn(FetchCommand(nebu_path, start_ledger, end_ledger, output_file),
                      [limit |-> 0, ledger_range |-> ledger_range])

(***************************************************************************)
(* The handlers after communicate() has returned                           *)
(***************************************************************************)
\* [compact_event(e) for e in events]; an exception in one ends the call
CompactAll(events) ==
    IF \E i \in 1..Len(events) : ~IsObj(events[i]) THEN TypeError
    ELSE [events |-> [i \in 1..Len(events) |-> compact_event(events[i])]]

WithEvents(compacted, rest) ==
    IF Raises(compacted) THEN compacted
    ELSE [k \in DOMAIN rest \cup {"events"} |->
             IF k = "events" THEN compacted.events ELSE rest[k]]

\* the "Format output" branch of extract_events
ExtractFormat(events, c, limit) ==
    LET truncated == Truncated(events, limit)
    IN  IF c.format = FORMAT_SUMMARY
        THEN summarize_events(events, c.start_ledger, c.end_ledger, limit)
        ELSE IF c.format = FORMAT_COMPACT
        THEN WithEvents(CompactAll(events),
                        [count |-> Len(events), truncated |-> truncated])
        ELSE [events |-> events, count |-> Len(events), truncated |-> truncated]

\* extract_events from stdout.decode() on; an exception other than the
\* timeout is not caught and ends the call
ExtractResponse(r, c, limit) ==
    IF ~Decodes(r.stdout) THEN UnicodeDecodeError
    ELSE IF r.returncode # 0
    THEN IF MentionsNotFound(r.stderr)
         THEN [error |-> <<"Processor '">> \o c.processor
                           \o <<"' not found or not installed">>,
               suggestion |-> <<"Install the processor with: nebu install ">>
                                \o c.processor]
         ELSE [error |-> <<"Extraction failed: ">> \o Strip(r.stderr)]
    ELSE ExtractFormat(ParseEvents(r.stdout), c, limit)

\* the "Format output" branch of run_pipeline
PipelineFormat(events, c, limit) ==
    LET truncated == Truncated(events, limit)
    IN  IF c.format = FORMAT_SUMMARY
        THEN summarize_events(events, c.start_ledger, c.end_ledger, limit)
        ELSE IF c.format = FORMAT_COMPACT
        THEN WithEvents(CompactAll(events),
                        [count |-> Len(events), pipeline |-> c.pipeline,
                         truncated |-> truncated])
        ELSE [events |-> events, count |-> Len(events), pipeline |-> c.pipeline,
              truncated |-> truncated]

\* run_pipeline from stdout.decode() on; an exception other than the
\* timeout is not caught and ends the call
PipelineResponse(r, c, limit) ==
    IF ~Decodes(r.stdout) THEN UnicodeDecodeError
    ELSE IF r.returncode # 0
    THEN [error |-> <<"Pipeline failed: ">> \o Strip(r.stderr)]
    ELSE PipelineFormat(ParseEvents(r.stdout), c, limit)

\* fetch_ledgers from "if returncode != 0" on; file_size is what
\* os.path.getsize reports, 0 on OSError
FetchResponse(r, c, ledger_range, file_size) ==
    IF r.returncode # 0
    THEN [error |-> <<"Fetch failed: ">> \o Strip(r.stderr)]
    ELSE [file |-> c.output_file,
          ledger_range |-> <<c.start_ledger, c.end_ledger>>,
          ledgers |-> ledger_range + 1,
          bytes |-> file_size]

\* communicate() returns within the timeout: every stage has exited, the
\* shell exits with the chain's status, and the handler runs to its return
Finish(r, resp) ==
    /\ pc' = "done"
    /\ alive' = {}
    /\ result' = r
    /\ response' = resp
    /\ UNCHANGED <<fs, call, locals, cmd, spawned>>

ExtractDone(r) == Finish(r, ExtractResponse(r, call, locals.limit))

PipelineDone(r) == Finish(r, PipelineResponse(r, call, locals.limit))

FetchDone(r, file_size) ==
    Finish(r, FetchResponse(r, call, locals.ledger_range, file_size))

\* the ways the chain can end: the outcome of each stage that ran, and the
\* captured stdout
ExtractEnds(stages) ==
    \E o \in [FreeStages(fs, stages) -> StageOutcomes] :
      \E stdout \in Captured(stages, o) :
        ExtractDone(Communicate(StageResults(fs, stages, o), stdout))

PipelineEnds(stages) ==
    \E o \in [FreeStages(fs, stages) -> StageOutcomes] :
      \E stdout \in Captured(stages, o) :
        PipelineDone(Communicate(StageResults(fs, stages, o), stdout))

FetchEnds(stages) ==
    \E o \in [FreeStages(fs, stages) -> StageOutcomes], file_size \in FileSizes :
        FetchDone(Communicate(StageResults(fs, stages, o), <<>>), file_size)

ExtractEventsReturn ==
    /\ pc = "running"
    /\ alive = {0}
    /\ call.tool = "extract_events"
    /\ ExtractEnds(ShellStages(cmd))

RunPipelineReturn ==
    /\ pc = "running"
    /\ alive = {0}
    /\ call.tool = "run_pipeline"
    /\ PipelineEnds(ShellStages(cmd))

FetchLedgersReturn ==
    /\ pc = "running"
    /\ alive = {0}
    /\ call.tool = "fetch_ledgers"
    /\ FetchEnds(ShellStages(cmd))

(***************************************************************************)
(* asyncio.TimeoutError: proc.kill(); await proc.wait(); return            *)
(***************************************************************************)
TimeoutWord(tool) ==
    CASE tool = "extract_events" -> "Extraction"
      [] tool = "run_pipeline" -> "Pipeline"
      [] OTHER -> "Fetch"

TimeoutHint(tool) ==
    CASE tool = "extract_events" -> "Try a smaller ledger range or fewer events"
      [] tool = "run_pipeline" -> "Try a smaller ledger range or simpler pipeline"
      [] OTHER -> "Try a smaller ledger range"

ErrTimedOut(tool) ==
    [error      |-> <<TimeoutWord(tool), " timed out after ">>
                      \o Str(EXTRACTION_TIMEOUT) \o <<"s">>,
     suggestion |-> <<TimeoutHint(tool)>>]

\* proc is the shell: kill() signals that one process, wait() reaps it.
\* The stages are the shell's children and are not signalled.
Killed(running) == running \ {0}

\* the timeout expires before the chain has finished
Timeout ==
    /\ pc = "running"
    /\ alive' = Killed(alive)
    /\ pc' = "done"
    /\ response' = ErrTimedOut(call.tool)
    /\ UNCHANGED <<fs, call, locals, cmd, spawned, result>>

\* a stage of the chain exits on its own, during the call or after it
StageExit ==
    /\ pc \in {"running", "done"}
    /\ \E p \in alive \ {0} : alive' = alive \ {p}
    /\ UNCHANGED <<pc, fs, call, locals, cmd, spawned, result, response>>

\* a tool call arrives with its arguments
CallExtractEvents ==
    /\ pc = "idle"
    /\ \E processor \in ProcessorNames, s \in Starts, d \in Deltas,
          filter \in Filters, limit \in Limits, format \in Formats :
            ExtractEvents(processor, s, s + d, filter, limit, format)

CallRunPipeline ==
    /\ pc = "idle"
    /\ \E pipeline \in Pipelines, s \in Starts, d \in Deltas,
          limit \in Limits, format \in Formats :
            RunPipeline(pipeline, s, s + d, limit, format)

CallFetchLedgers ==
    /\ pc = "idle"
    /\ \E s \in Starts, d \in Deltas, output_file \in OutputFiles :
            FetchLedgers(s, s + d, output_file)

Next ==
    \/ CallExtractEvents
    \/ CallRunPipeline
    \/ CallFetchLedgers
    \/ ExtractEventsReturn
    \/ RunPipelineReturn
    \/ FetchLedgersReturn
    \/ Timeout
    \/ StageExit

Spec == Init /\ [][Next]_vars

(***************************************************************************)
(* compact_event on its own: called once on an event object drawn from the *)
(* shapes a processor can emit                                             *)
(***************************************************************************)
\* the most kind keys one event carries
MaxKinds == 2

KindNames == {"transfer", "mint", "burn", "clawback", "fee"}

KindSets == {K \in SUBSET KindNames : Cardinality(K) <= MaxKinds}

\* keys of an event that are not kind keys
OtherKeySets == SUBSET {"meta", "contract"}

\* the kind-specific object: any of the fields the projection looks for
EvtDatas == {[k \in S |-> "v"] : S \in SUBSET {"from", "to", "amount", "assetCode"}}

\* a hash shorter than the 12 characters kept, and a longer one
TxHashes == {<<"a", "b", "c">>, EvTransfer.v.meta.txHash}

Metas ==
    {[k \in S |-> IF k = "ledgerSequence" THEN 7 ELSE h] :
        S \in SUBSET {"ledgerSequence", "txHash"}, h \in TxHashes}

CompactInputs ==
    {JObj([k \in K \cup O |->
              IF k \in K THEN data ELSE IF k = "meta" THEN meta ELSE [id |-> "CC"]]) :
        K \in KindSets, O \in OtherKeySets, data \in EvtDatas, meta \in Metas}

InitCompact ==
    /\ pc = "idle"
    /\ fs = FsBare
    /\ call \in {[tool |-> "compact_event", event |-> e] : e \in CompactInputs}
    /\ locals = NoLocals
    /\ cmd = <<>>
    /\ alive = {}
    /\ spawned = 0
    /\ result = NoResult
    /\ response = NoResponse

\* compact_event(event) runs to its return
CompactEvent ==
    /\ pc = "idle"
    /\ call.tool = "compact_event"
    /\ pc' = "done"
    /\ response' = compact_event(call.event)
    /\ UNCHANGED <<fs, call, locals, cmd, alive, spawned, result>>

NextCompact == CompactEvent

SpecCompact == InitCompact /\ [][NextCompact]_vars

(***************************************************************************)
(* Properties                                                              *)
(***************************************************************************)
Tools == {"extract_events", "run_pipeline", "fetch_ledgers"}

LedgerSpan == call.end_ledger - call.start_ledger

Returned == pc = "done"

IsError == "error" \in DOMAIN response

\* C1: in extract_events, run_pipeline and fetch_ledgers a child process
\* exists only if 0 <= end_ledger - start_ledger <= MAX_LEDGER_RANGE, and a
\* call with an inverted or too large range has returned an error without
\* creating any process.
C1_ValidationBeforeSpawn ==
    call.tool \in Tools =>
        /\ (spawned > 0 \/ alive # {}) =>
               (0 <= LedgerSpan /\ LedgerSpan <= MAX_LEDGER_RANGE)
        /\ (LedgerSpan < 0 \/ LedgerSpan > MAX_LEDGER_RANGE) =>
               (Returned /\ IsError /\ spawned = 0 /\ alive = {} /\ cmd = <<>>)

C1_Witness ==
    /\ call.tool = "run_pipeline"
    /\ call.pipeline = <<"a">>
    /\ fs = FsInstalled
    /\ LedgerSpan = MAX_LEDGER_RANGE + 1
    /\ Returned /\ IsError /\ spawned = 0

\* C2: a call with end < start returns the error "end_ledger must be >=
\* start_ledger"; a call with end - start > MAX_LEDGER_RANGE returns the
\* range-too-large error whose suggestion names the same start and the end
\* start + MAX_LEDGER_RANGE, a range that validation accepts.
C2_RangeErrors ==
    (call.tool \in Tools /\ Returned) =>
        /\ LedgerSpan < 0 =>
               response = [error |-> <<"end_ledger must be >= start_ledger">>]
        /\ LedgerSpan > MAX_LEDGER_RANGE =>
               /\ DOMAIN response = {"error", "suggestion"}
               /\ response.error[1] = "Ledger range too large ("
               /\ response.error[2] = ToString(LedgerSpan)
               /\ Len(response.suggestion) = 4
               /\ response.suggestion[2] = ToString(call.start_ledger)
               /\ response.suggestion[4] =
                      ToString(call.start_ledger + MAX_LEDGER_RANGE)
               /\ LET suggested ==
                          CHOOSE e \in (call.start_ledger - 1)..(call.end_ledger) :
                              ToString(e) = response.suggestion[4]
                  IN  /\ ~RangeInverted(suggested - call.start_ledger)
                      /\ ~RangeTooLarge(suggested - call.start_ledger)

C2_Witness ==
    /\ call.tool = "extract_events"
    /\ Returned
    /\ call.start_ledger = 1
    /\ call.end_ledger = 1 + MAX_LEDGER_RANGE + 1
    /\ "suggestion" \in DOMAIN response
    /\ response.suggestion[4] = ToString(1 + MAX_LEDGER_RANGE)

\* the logical processor names of a pipeline: the first word of each stage
\* that has one, in order
StageNames(pipeline) ==
    LET parts == Split(Strip(pipeline), "|")
        named == SelectSeq(parts, LAMBDA part : Words(part) # <<>>)
    IN  [i \in 1..Len(named) |-> Words(named[i])[1]]

\* no search-path entry and no executable file in a fallback directory
Unresolvable(name) ==
    /\ name \notin fs.path
    /\ \A dir \in {GoBin, LocalBin, UsrLocalBin} : <<dir, name, "x">> \notin fs.files

ValidRange == 0 <= LedgerSpan /\ LedgerSpan <= MAX_LEDGER_RANGE

\* C3: a pipeline whose first stage resolves and one of whose later stages
\* does not is rejected before any process is spawned, with an error that
\* names the unresolved stage.
C3_EveryStageResolves ==
    (call.tool = "run_pipeline" /\ ValidRange /\ Words(Split(Strip(call.pipeline), "|")[1]) # <<>>) =>
        LET names == StageNames(call.pipeline)
            bad == {i \in 1..Len(names) : Unresolvable(names[i])}
        IN  bad # {} =>
              /\ spawned = 0
              /\ Returned
              /\ IsError
              /\ \E i \in bad : Contains(response.error, names[i])

\* C4: when a call has returned the timed-out error, no process it started
\* is still running.
C4_NoProcessAfterTimeout ==
    (call.tool \in {"extract_events", "run_pipeline"} /\ Returned /\ IsError
       /\ Contains(response.error, <<" timed out after ", "120", "s">>)) =>
        /\ "suggestion" \in DOMAIN response
        /\ alive = {}

\* C5: the limit the handler uses, for the head stage of the command and for
\* the truncated flag, lies in [1, MAX_LIMIT] whatever limit the caller gave.
C5_LimitClamped ==
    (call.tool \in {"extract_events", "run_pipeline"} /\ spawned > 0) =>
        /\ 1 <= locals.limit /\ locals.limit <= MAX_LIMIT
        /\ \E n \in 1..MAX_LIMIT :
              SubSeq(cmd, Len(cmd) - 3, Len(cmd)) = <<"head", " ", "-", ToString(n)>>

\* the number of events decoded from the captured stdout
DecodedCount ==
    Cardinality({i \in 1..Len(result.stdout) :
                    /\ Len(result.stdout[i]) = 1
                    /\ "doc" \in DOMAIN result.stdout[i][1]})

IsSuccess ==
    /\ call.tool \in {"extract_events", "run_pipeline"}
    /\ Returned
    /\ "truncated" \in DOMAIN response

\* C6: in a successful response of extract_events or run_pipeline, in every
\* format, for a caller's limit in [1, MAX_LIMIT], truncated is true exactly
\* when the number of decoded events is at least the limit, and the event
\* count reported is the number decoded.
C6_TruncatedFlag ==
    (IsSuccess /\ 1 <= call.limit /\ call.limit <= MAX_LIMIT) =>
        /\ response.truncated = (DecodedCount >= call.limit)
        /\ call.format = FORMAT_SUMMARY <=> "total_events" \in DOMAIN response
        /\ call.format = FORMAT_SUMMARY => response.total_events = DecodedCount
        /\ call.format # FORMAT_SUMMARY => response.count = DecodedCount

C6_Witness ==
    /\ IsSuccess
    /\ call.format = FORMAT_SUMMARY
    /\ call.limit = MAX_LIMIT
    /\ response.total_events = MAX_LIMIT
    /\ response.truncated

RECURSIVE SumOver(_, _)
SumOver(f, keys) ==
    IF keys = {} THEN 0
    ELSE LET k == CHOOSE x \in keys : TRUE
         IN  f[k] + SumOver(f, keys \ {k})

IsSummary == IsSuccess /\ "by_type" \in DOMAIN response

\* the decoded events that carry at least one of the kind keys
WithKindKey ==
    {i \in 1..Len(result.stdout) :
        /\ Len(result.stdout[i]) = 1
        /\ "doc" \in DOMAIN result.stdout[i][1]
        /\ \E k \in {"transfer", "mint", "burn", "clawback", "fee"} :
              k \in DOMAIN result.stdout[i][1].doc.v}

\* C7 as stated: the counts in by_type sum to total_events.
C7_ByTypeSumsToTotal ==
    IsSummary => SumOver(response.by_type, DOMAIN response.by_type) = response.total_events

\* C7, amended: the counts in by_type sum to the number of decoded events
\* that carry at least one kind key (an event with several is counted once,
\* an event with none is counted under no type); they sum to total_events
\* when every event carries a kind key.
C7_ByTypeSumsToMatched ==
    IsSummary =>
        /\ SumOver(response.by_type, DOMAIN response.by_type) = Cardinality(WithKindKey)
        /\ Cardinality(WithKindKey) <= response.total_events
        /\ Cardinality(WithKindKey) = DecodedCount =>
               SumOver(response.by_type, DOMAIN response.by_type) = response.total_events

C7_Witness ==
    /\ IsSummary
    /\ response.total_events = 2
    /\ result.stdout = <<DocLine(EvMintFee), DocLine(EvContract)>>
    /\ response.by_type = [mint |-> 1]

\* C8: an accepted range, inclusive on both ends, covers at most
\* MAX_LEDGER_RANGE ledgers, and fetch_ledgers never reports more.
C8_AtMostMaxLedgers ==
    /\ (call.tool \in Tools /\ spawned > 0) => LedgerSpan + 1 <= MAX_LEDGER_RANGE
    /\ (Returned /\ "ledgers" \in DOMAIN response) => response.ledgers <= MAX_LEDGER_RANGE

\* C9: extract_events with a valid range and a processor that is neither on
\* the search path nor an executable file in a fallback directory returns
\* the not-found error with the install suggestion and spawns nothing.
C9_UnresolvedProcessor ==
    (call.tool = "extract_events" /\ ValidRange /\ Unresolvable(call.processor)) =>
        /\ Returned
        /\ spawned = 0 /\ alive = {}
        /\ IsError /\ "suggestion" \in DOMAIN response
        /\ response.error = <<"Processor '">> \o call.processor \o <<"' not found">>
        /\ response.suggestion = <<"Install with: nebu install ">> \o call.processor

C9_Witness ==
    /\ call.tool = "extract_events"
    /\ fs = FsInstalled
    /\ call.processor = <<"k">>
    /\ LedgerSpan = MAX_LEDGER_RANGE
    /\ Returned /\ IsError /\ spawned = 0

\* C10: when a processor stage has exited non-zero with "not found" in its
\* standard error, the response of extract_events and of run_pipeline is an
\* error that carries an install suggestion.
C10_NotFoundSuggestsInstall ==
    (call.tool \in {"extract_events", "run_pipeline"} /\ Returned
       /\ \E i \in 1..(Len(result.stages) - 1) :
             /\ result.stages[i].code # 0
             /\ Contains(LowerAll(result.stages[i].err), <<"not", " ", "found">>)) =>
        /\ IsError
        /\ "suggestion" \in DOMAIN response
        /\ \E i \in 1..Len(response.suggestion) :
              response.suggestion[i] \in {"Install with: nebu install ",
                                          "Install the processor with: nebu install "}

\* communicate() has returned: the chain ran to its end within the timeout
ChainEnded == Returned /\ result.stages # <<>>

\* the stages of the chain that run a processor (not jq, not head)
ProcessorStages ==
    IF call.tool = "extract_events" THEN {1} ELSE 1..(Len(result.stages) - 1)

\* C11: a success response is returned only if every processor stage of the
\* chain exited with code 0; when a processor stage exited non-zero the
\* response is an error without events that carries the stage's captured
\* stderr (or, for a missing command, the install suggestion).
C11_NonZeroExitIsError ==
    (call.tool \in {"extract_events", "run_pipeline"} /\ ChainEnded) =>
        LET failed == {i \in ProcessorStages : result.stages[i].code # 0}
        IN  /\ IsSuccess => failed = {}
            /\ failed # {} =>
                  /\ IsError
                  /\ "events" \notin DOMAIN response
                  /\ \/ "suggestion" \in DOMAIN response
                     \/ \A i \in failed :
                           Contains(response.error, Strip(result.stages[i].err))

\* C12: compact_event applied to an event object with exactly one of the
\* kind keys transfer, mint, burn, clawback, fee returns a result whose type
\* field is that key, whichever of meta, from, to, amount, assetCode and
\* other keys the event carries.
C12_CompactTypeIsKindKey ==
    (call.tool = "compact_event" /\ Returned) =>
        LET present == {k \in {"transfer", "mint", "burn", "clawback", "fee"} :
                           k \in DOMAIN call.event.v}
        IN  Cardinality(present) = 1 =>
              /\ "type" \in DOMAIN response
              /\ \A k \in present : response.type = k

C12_Witness ==
    /\ call.tool = "compact_event"
    /\ Returned
    /\ DOMAIN call.event.v = {"fee", "contract"}
    /\ DOMAIN call.event.v.fee = {}
    /\ response = [type |-> "fee"]

\* the words of the ledger arguments and the quiet flag of this call
LedgerWords ==
    << <<"--start-ledger">>, <<ToString(call.start_ledger)>>,
       <<"--end-ledger">>, <<ToString(call.end_ledger)>>, <<"-q">> >>

\* the stages as the caller wrote them, each as its words: the processor of
\* extract_events, the stages of a pipeline that have a word
CallerStages ==
    IF call.tool = "extract_events" THEN << <<call.processor>> >>
    ELSE LET parts == Split(Strip(call.pipeline), "|")
             named == SelectSeq(parts, LAMBDA part : Words(part) # <<>>)
         IN  [i \in 1..Len(named) |-> Words(named[i])]

\* words are the caller's words with the leading name kept or given a
\* directory in front
Rewritten(words, original) ==
    /\ Len(words) = Len(original)
    /\ Tail(words) = Tail(original)
    /\ \/ words[1] = original[1]
       \/ \E dir \in {GoBin, LocalBin, UsrLocalBin} : words[1] = <<dir>> \o original[1]

\* what C13 says of the stages after the first: none carries a ledger
\* argument, the caller's later stages follow in their order (for
\* extract_events: the jq stage exactly when a filter is given), and the
\* last stage is head with the effective limit
LaterStagesInOrder(st, cs, n) ==
    /\ n >= 2
    /\ Words(st[n]) = << <<"head">>, <<"-", ToString(Min(call.limit, MAX_LIMIT))>> >>
    /\ \A i \in 2..n :
           ~Contains(st[i], <<"--start-ledger">>) /\ ~Contains(st[i], <<"--end-ledger">>)
    /\ IF call.tool = "extract_events"
       THEN IF call.filter \in {<<>>, << <<>> >>} THEN n = 2
            ELSE n = 3 /\ SubSeq(Words(st[2]), 1, 2) = << <<"jq">>, <<"-c">> >>
       ELSE /\ n - 1 = Len(cs)
            /\ \A i \in 2..(n - 1) : Rewritten(Words(st[i]), cs[i])

\* the ledger arguments directly after the leading token of the first stage
ArgsAfterToken(st, cs, w1) ==
    /\ Len(w1) = Len(cs[1]) + 5
    /\ Rewritten(<<w1[1]>>, <<cs[1][1]>>)
    /\ SubSeq(w1, 2, 6) = LedgerWords
    /\ SubSeq(w1, 7, Len(w1)) = Tail(cs[1])
    /\ LaterStagesInOrder(st, cs, Len(st))

\* the ledger arguments at the end of the first stage, after its k words
ArgsEndFirstStage(st, cs, w1, k) ==
    /\ Len(w1) = k + 5
    /\ Rewritten(SubSeq(w1, 1, k), cs[1])
    /\ ShellFinds(fs, w1[1])
    /\ SubSeq(w1, k + 1, k + 5) = LedgerWords
    /\ LaterStagesInOrder(st, cs, Len(st))

\* the words of the first stage of a composed command
FirstStageWords(c) == Words(ShellStages(c)[1])

\* C13 as stated: while a call awaits the command it composed and spawned,
\* in that command the ledger arguments and the
\* quiet flag come directly after the first stage's path-rewritten token,
\* before the caller's own arguments of that stage; later stages follow in
\* order and head is last.
C13_LedgerArgsAfterToken ==
    (call.tool \in {"extract_events", "run_pipeline"} /\ pc = "running") =>
        ArgsAfterToken(ShellStages(cmd), CallerStages, FirstStageWords(cmd))

\* C13, amended: while a call awaits the command it composed and spawned,
\* in that command the ledger arguments and the quiet flag end the first
\* stage, after the caller's own arguments of that stage, whose leading
\* token is rewritten to a path the shell finds; later stages follow in
\* order and head is last.
C13_LedgerArgsEndFirstStage ==
    (call.tool \in {"extract_events", "run_pipeline"} /\ pc = "running") =>
        ArgsEndFirstStage(ShellStages(cmd), CallerStages, FirstStageWords(cmd),
                          Len(CallerStages[1]))

C13_Witness ==
    /\ call.tool = "run_pipeline"
    /\ call.pipeline = <<" ", "a", " ", "-", "x", "|", "g">>
    /\ fs = FsInstalled
    /\ call.start_ledger = 1 /\ call.end_ledger = 1 /\ call.limit = 2
    /\ pc = "running"
    /\ spawned = 4
    /\ [i \in 1..3 |-> Words(ShellStages(cmd)[i])] =
          << << <<"a">>, <<"-", "x">>, <<"--start-ledger">>, <<"1">>,
                <<"--end-ledger">>, <<"1">>, <<"-q">> >>,
             << <<GoBin, "g">> >>,
             << <<"head">>, <<"-", "2">> >> >>

\* the lines of the captured stdout that hold a complete JSON document
DocLines ==
    SelectSeq(result.stdout, LAMBDA l : Len(l) = 1 /\ "doc" \in DOMAIN l[1])

AllObjects(docs) == \A i \in 1..Len(docs) : docs[i][1].doc.t = "obj"

\* the response is a success that counts these documents and, in full
\* format, returns them in this order
SucceedsWith(docs) ==
    /\ IsSuccess
    /\ call.format = FORMAT_SUMMARY => response.total_events = Len(docs)
    /\ call.format # FORMAT_SUMMARY => response.count = Len(docs)
    /\ call.format = FORMAT_FULL =>
           response.events = [i \in 1..Len(docs) |-> docs[i][1].doc]

\* C14: when the chain has ended with status 0, whatever lines the captured
\* stdout holds besides JSON documents (empty lines, lines that are not
\* JSON), the call succeeds: the events counted are the documents, and in
\* full format the events returned are the documents in their source order.
C14_DecodingNonFatal ==
    (call.tool \in {"extract_events", "run_pipeline"} /\ ChainEnded
       /\ result.returncode = 0
       /\ AllObjects(DocLines)) =>
        SucceedsWith(DocLines)

\* C15: run_pipeline with a valid range and a pipeline whose first stage
\* holds no word (an empty or blank string, or nothing before the first
\* "|") returns the error object "Empty pipeline" and spawns nothing.
C15_EmptyPipelineError ==
    (call.tool = "run_pipeline" /\ ValidRange
       /\ Words(Split(Strip(call.pipeline), "|")[1]) = <<>>) =>
        /\ Returned
        /\ spawned = 0 /\ alive = {}
        /\ response = [error |-> <<"Empty pipeline">>]

\* the number of events a successful response reports
ReportedCount ==
    IF "total_events" \in DOMAIN response THEN response.total_events
    ELSE response.count

\* C16: in every successful response of extract_events and run_pipeline
\* the number of events reported, and the number returned, is at most the
\* effective limit min(limit, MAX_LIMIT), hence at most MAX_LIMIT, however
\* many lines the processors wrote.
C16_OutputBounded ==
    IsSuccess =>
        /\ 0 <= ReportedCount
        /\ ReportedCount <= Min(call.limit, MAX_LIMIT)
        /\ ReportedCount <= MAX_LIMIT
        /\ "events" \in DOMAIN response => Len(response.events) = ReportedCount

C16_Witness ==
    /\ IsSuccess
    /\ call.tool = "run_pipeline"
    /\ call.limit = MAX_LIMIT + 1
    /\ call.format = FORMAT_FULL
    /\ response.count = MAX_LIMIT
    /\ Len(response.events) = MAX_LIMIT

====
